---- MODULE Spec2Model ----
(***************************************************************************)
(* SkylinePathfinder: a Euclidean graph of hallway and classroom nodes is  *)
(* loaded, repaired by connect_all, reduced to a complete graph over the   *)
(* nodes to visit, solved as an open travelling-salesman route (greedy or  *)
(* brute force) and the route expanded to a walk over the base graph.      *)
(***************************************************************************)
EXTENDS Integers, Sequences, FiniteSets, TLC

VARIABLES
    node_dict,   \* EuclideanGraph.node_dict: name -> node
    graph,       \* the EuclideanGraph: nodes, adjacency, edge weights
    graph0,      \* history: the graph as loaded, before connect_all
    pc,          \* position of the run
    todo,        \* connect_all: the classrooms snapshot the loop iterates
    ci,          \* connect_all: number of classrooms already processed
    nodes,       \* tsp_solver argument: names of the nodes to visit
    start,       \* tsp_solver argument: name of the start node
    reduced,     \* the ReducedGraph
    greedy,      \* the greedy solves (two calls on the same reduced graph)
    brute,       \* the result of the brute-force solve
    expanded,    \* the result of expand_path on the brute-force route
    err          \* the exception that ended the run, "" if none

vars == <<node_dict, graph, graph0, pc, todo, ci, nodes, start, reduced,
          greedy, brute, expanded, err>>

(***************************************************************************)
(* Bounds of the model.                                                    *)
(***************************************************************************)
MaxClassrooms == 3

(***************************************************************************)
(* Generic helpers.                                                        *)
(***************************************************************************)
EmptyFn == [x \in {} |-> x]

Put(f, k, v) == [x \in (DOMAIN f) \cup {k} |-> IF x = k THEN v ELSE f[x]]

Range(s) == {s[i] : i \in DOMAIN s}

\* x ** 0.5, on the perfect squares the model's coordinates produce
Sqrt(n) == CHOOSE r \in 0..n : r * r = n

Reverse(s) == [i \in 1..Len(s) |-> s[Len(s) + 1 - i]]

(***************************************************************************)
(* model/euclidean_node.py                                                 *)
(***************************************************************************)
EuclideanNode(node_type, name, floor, coord) ==
    [type |-> node_type, name |-> name, floor |-> floor, coord |-> coord]

\* Python's None where a node is expected
NoNode == EuclideanNode("None", "", 0, <<0, 0>>)

(***************************************************************************)
(* model/functions.py                                                      *)
(***************************************************************************)
euclidean_dist(p1, p2) ==
    Sqrt((p1[1] - p2[1]) * (p1[1] - p2[1]) + (p1[2] - p2[2]) * (p1[2] - p2[2]))

euclidean_dist_nodes(n1, n2) == euclidean_dist(n1.coord, n2.coord)

\* sorted(data, key=...): stable insertion of x into an already sorted list
RECURSIVE InsertSorted(_, _, _)
InsertSorted(sorted, x, node) ==
    IF sorted = <<>> THEN <<x>>
    ELSE IF euclidean_dist(x.coord, node.coord)
              < euclidean_dist(sorted[Len(sorted)].coord, node.coord)
         THEN Append(InsertSorted(SubSeq(sorted, 1, Len(sorted) - 1), x, node),
                     sorted[Len(sorted)])
         ELSE Append(sorted, x)

RECURSIVE SortByDist(_, _)
SortByDist(data, node) ==
    IF data = <<>> THEN <<>>
    ELSE InsertSorted(SortByDist(SubSeq(data, 1, Len(data) - 1), node),
                      data[Len(data)], node)

\* naive_knn with ignore_self and same_floor at their defaults (True);
\* ok = FALSE is the ValueError raised when fewer than k candidates remain
naive_knn(node, data, k) ==
    LET onFloor == SelectSeq(data, LAMBDA item : item.floor = node.floor)
        others  == SelectSeq(onFloor,
                       LAMBDA item : euclidean_dist(node.coord, item.coord) # 0)
    IN  IF k > Len(others)
        THEN [ok |-> FALSE, result |-> <<>>]
        ELSE [ok |-> TRUE, result |-> SubSeq(SortByDist(others, node), 1, k)]

\* faulty variant: the foot of the perpendicular on the whole line through p
\* and q, not clamped to the segment
ProjectedCoordUnclamped(p, q, c) ==
    LET dx  == q[1] - p[1]
        dy  == q[2] - p[2]
        den == dx * dx + dy * dy
        num == (c[1] - p[1]) * dx + (c[2] - p[2]) * dy
    IN  IF den = 0 THEN p
        ELSE <<p[1] + (num * dx) \div den, p[2] + (num * dy) \div den>>

\* line.interpolate(line.project(point)) for the segment from p to q
ProjectedCoord(p, q, c) ==
    LET dx  == q[1] - p[1]
        dy  == q[2] - p[2]
        den == dx * dx + dy * dy
        num == (c[1] - p[1]) * dx + (c[2] - p[2]) * dy
    IN  IF num <= 0 THEN p
        ELSE IF num >= den THEN q
        ELSE <<p[1] + (num * dx) \div den, p[2] + (num * dy) \div den>>

project(p, q, node) ==
    EuclideanNode("Hallway", "T-" \o node.name, node.floor,
                  ProjectedCoord(p.coord, q.coord, node.coord))

(***************************************************************************)
(* networkx.Graph as the program uses it: nodes and neighbours are kept in *)
(* insertion order.                                                        *)
(***************************************************************************)
EmptyGraph == [nodes |-> <<>>, adj |-> EmptyFn, wt |-> EmptyFn]

add_node(G, n) ==
    IF n \in DOMAIN G.adj THEN G
    ELSE [G EXCEPT !.nodes = Append(@, n), !.adj = Put(@, n, <<>>)]

add_edge(G, u, v, w) ==
    LET G1   == add_node(add_node(G, u), v)
        adj1 == [G1.adj EXCEPT ![u] = IF v \in Range(@) THEN @ ELSE Append(@, v)]
        adj2 == [adj1 EXCEPT ![v] = IF u \in Range(@) THEN @ ELSE Append(@, u)]
    IN  [G1 EXCEPT !.adj = adj2,
                   !.wt = Put(Put(@, <<u, v>>, w), <<v, u>>, w)]

\* NodeList.classrooms / NodeList.hallways over graph.nodes
classrooms(G) == SelectSeq(G.nodes, LAMBDA n : n.type = "Classroom")

hallways(G) == SelectSeq(G.nodes, LAMBDA n : n.type = "Hallway")

(***************************************************************************)
(* EuclideanGraph.from_csv: rows is the parsed file, one record            *)
(* [node, neighbors] per line.                                             *)
(***************************************************************************)
process_csv(rows) ==
    [name \in {rows[i].node.name : i \in DOMAIN rows} |->
        (CHOOSE r \in Range(rows) : r.node.name = name).node]

RECURSIVE AddNeighbors(_, _, _, _, _)
AddNeighbors(G, nd, node, names, j) ==
    IF j > Len(names) THEN G
    ELSE AddNeighbors(
             add_edge(G, node, nd[names[j]],
                      euclidean_dist_nodes(node, nd[names[j]])),
             nd, node, names, j + 1)

RECURSIVE FromCsvRows(_, _, _, _)
FromCsvRows(G, nd, rows, i) ==
    IF i > Len(rows) THEN G
    ELSE FromCsvRows(
             add_node(AddNeighbors(G, nd, rows[i].node, rows[i].neighbors, 1),
                      rows[i].node),
             nd, rows, i + 1)

from_csv(rows) == FromCsvRows(EmptyGraph, process_csv(rows), rows, 1)

(***************************************************************************)
(* The input files of the model.  Hallways lie on the line y = 0 of their  *)
(* floor; every distance between two positions of the model is a whole     *)
(* number.                                                                 *)
(***************************************************************************)
HallwayCatalogue ==
    << EuclideanNode("Hallway", "H1", 1, <<0, 0>>),
       EuclideanNode("Hallway", "H2", 1, <<6, 0>>),
       EuclideanNode("Hallway", "H3", 2, <<0, 0>>),
       EuclideanNode("Hallway", "H4", 2, <<6, 0>>) >>

\* hallway pairs a file may list as neighbours: the two corridors, one stair
HallwayLinks == {<<1, 2>>, <<3, 4>>, <<1, 3>>}

ClassroomCatalogue ==
    << EuclideanNode("Classroom", "C1", 1, <<3, 4>>),
       EuclideanNode("Classroom", "C2", 2, <<3, 4>>),
       EuclideanNode("Classroom", "C3", 1, <<0, 0>>),
       EuclideanNode("Classroom", "C4", 2, <<0, 0>>),
       EuclideanNode("Classroom", "C5", 1, <<3, -4>>),
       EuclideanNode("Classroom", "C6", 2, <<3, -4>>) >>

\* the classroom lines of a file: 2..MaxClassrooms of them, in any order
ClassroomChoices ==
    UNION {{c \in [1..n -> 1..Len(ClassroomCatalogue)] :
               \A i, j \in 1..n : i # j => c[i] # c[j]} : n \in 2..MaxClassrooms}

HallwayRow(i, links) ==
    [node |-> HallwayCatalogue[i],
     neighbors |->
        LET adjacent == {j \in 1..Len(HallwayCatalogue) :
                            <<i, j>> \in links \/ <<j, i>> \in links}
        IN  [k \in 1..Cardinality(adjacent) |->
                HallwayCatalogue[
                    CHOOSE j \in adjacent :
                        Cardinality({l \in adjacent : l < j}) = k - 1].name]]

\* the first classroom's line names hallway H1 as a neighbour when wired
ClassroomRow(i, choice, wired) ==
    [node |-> ClassroomCatalogue[choice[i]],
     neighbors |-> IF wired /\ i = 1 THEN <<"H1">> ELSE <<>>]

CsvRows(links, choice, wired) ==
    [i \in 1..Len(HallwayCatalogue) |-> HallwayRow(i, links)]
    \o [i \in 1..Len(choice) |-> ClassroomRow(i, choice, wired)]

NoReduced == [start |-> NoNode, nodes |-> <<>>, adj |-> EmptyFn, wt |-> EmptyFn,
              edge_dict |-> EmptyFn]

NoRun == [path |-> <<>>, visited |-> {}, cur |-> NoNode, done |-> FALSE,
          length |-> 0]

NoExpansion == [route |-> <<>>, full_path |-> <<>>]

Init ==
    \E links \in SUBSET HallwayLinks, choice \in ClassroomChoices,
       wired \in BOOLEAN :
        LET rows == CsvRows(links, choice, wired) IN
        /\ node_dict = process_csv(rows)
        /\ graph = from_csv(rows)
        /\ graph0 = from_csv(rows)
        /\ pc = "loaded"
        /\ todo = <<>>
        /\ ci = 0
        /\ nodes = <<>>
        /\ start = ""
        /\ reduced = NoReduced
        /\ greedy = [r \in 1..2 |-> NoRun]
        /\ brute = NoRun
        /\ expanded = NoExpansion
        /\ err = ""

(***************************************************************************)
(* EuclideanGraph.connect_all                                              *)
(***************************************************************************)
\* faulty variant: the two nearest hallways are searched among the hallways
\* the graph had before the call
ConnectOneSnapshot(G, classroom) ==
    LET knn == naive_knn(classroom, hallways(graph0), 2) IN
    IF ~knn.ok THEN [ok |-> FALSE, graph |-> G]
    ELSE LET a  == knn.result[1]
             b  == knn.result[2]
             d  == project(a, b, classroom)
             G1 == add_edge(G, a, d, euclidean_dist_nodes(a, d))
             G2 == add_edge(G1, b, d, euclidean_dist_nodes(b, d))
             G3 == add_edge(G2, classroom, d, euclidean_dist_nodes(classroom, d))
         IN  [ok |-> TRUE, graph |-> G3]

\* the body of the loop for one classroom; knn.ok says whether it raised
ConnectOne(G, classroom) ==
    LET knn == naive_knn(classroom, hallways(G), 2) IN
    IF ~knn.ok THEN [ok |-> FALSE, graph |-> G]
    ELSE LET a  == knn.result[1]
             b  == knn.result[2]
             d  == project(a, b, classroom)
             G1 == add_edge(G, a, d, euclidean_dist_nodes(a, d))
             G2 == add_edge(G1, b, d, euclidean_dist_nodes(b, d))
             G3 == add_edge(G2, classroom, d, euclidean_dist_nodes(classroom, d))
         IN  [ok |-> TRUE, graph |-> G3]

\* the call: self.nodes.classrooms is evaluated once, before the loop
ConnectAllCall ==
    /\ pc = "loaded"
    /\ todo' = classrooms(graph)
    /\ ci' = 0
    /\ pc' = "connecting"
    /\ UNCHANGED <<node_dict, graph, graph0, nodes, start, reduced, greedy,
                   brute, expanded, err>>

\* one iteration of the loop; the ValueError of naive_knn ends the run
ConnectAllStep ==
    /\ pc = "connecting"
    /\ ci < Len(todo)
    /\ LET r == ConnectOne(graph, todo[ci + 1]) IN
         IF r.ok
         THEN /\ graph' = r.graph
              /\ ci' = ci + 1
              /\ UNCHANGED <<pc, err>>
         ELSE /\ pc' = "failed"
              /\ err' = "InsufficientNeighbors"
              /\ UNCHANGED <<graph, ci>>
    /\ UNCHANGED <<node_dict, graph0, todo, nodes, start, reduced, greedy,
                   brute, expanded>>

ConnectAllReturn ==
    /\ pc = "connecting"
    /\ ci = Len(todo)
    /\ pc' = "connected"
    /\ UNCHANGED <<node_dict, graph, graph0, todo, ci, nodes, start, reduced,
                   greedy, brute, expanded, err>>

(***************************************************************************)
(* networkx.astar_path(graph, source, target, heuristic), as called by     *)
(* _reduce_graph: a best-first search on cost + heuristic; the queue is a  *)
(* heap of (priority, counter, node, cost, parent).                        *)
(***************************************************************************)
Heuristic(n, target) == euclidean_dist_nodes(n, target)

\* faulty variant: every edge counted as 1, the default of an edge without "weight"
EdgeCostUnit(G, u, v) == 1

\* the weight function of the search: the edge attribute "weight"
EdgeCost(G, u, v) == G.wt[<<u, v>>]

AStarPop(queue) ==
    CHOOSE e \in queue :
        \A f \in queue : e.pri < f.pri \/ (e.pri = f.pri /\ e.cnt <= f.cnt)

\* the loop over G[curnode].items(); st = [queue, enqueued, c]
RECURSIVE AStarRelax(_, _, _, _, _, _)
AStarRelax(G, cur, dist, target, j, st) ==
    IF j > Len(G.adj[cur]) THEN st
    ELSE LET nb    == G.adj[cur][j]
             ncost == dist + EdgeCost(G, cur, nb)
         IN  IF nb \in DOMAIN st.enqueued /\ st.enqueued[nb] <= ncost
             THEN AStarRelax(G, cur, dist, target, j + 1, st)
             ELSE AStarRelax(G, cur, dist, target, j + 1,
                      [queue    |-> st.queue \cup
                                      {[pri |-> ncost + Heuristic(nb, target),
                                        cnt |-> st.c, node |-> nb,
                                        cost |-> ncost, parent |-> cur]},
                       enqueued |-> Put(st.enqueued, nb, ncost),
                       c        |-> st.c + 1])

\* the path read back through explored, from the target to the source
RECURSIVE AStarBack(_, _)
AStarBack(node, explored) ==
    IF node = NoNode THEN <<>>
    ELSE Append(AStarBack(explored[node], explored), node)

\* the while loop; <<>> is NetworkXNoPath
RECURSIVE AStarLoop(_, _, _, _, _, _)
AStarLoop(G, target, queue, enqueued, explored, c) ==
    IF queue = {} THEN <<>>
    ELSE LET e    == AStarPop(queue)
             rest == queue \ {e}
         IN  IF e.node = target
             THEN Append(AStarBack(e.parent, explored), e.node)
             ELSE IF e.node \in DOMAIN explored
                     /\ (explored[e.node] = NoNode \/ enqueued[e.node] < e.cost)
             THEN AStarLoop(G, target, rest, enqueued, explored, c)
             ELSE LET st == AStarRelax(G, e.node, e.cost, target, 1,
                                [queue |-> rest, enqueued |-> enqueued, c |-> c])
                  IN  AStarLoop(G, target, st.queue, st.enqueued,
                                Put(explored, e.node, e.parent), st.c)

astar_path(G, source, target) ==
    AStarLoop(G, target,
              {[pri |-> 0, cnt |-> 0, node |-> source, cost |-> 0,
                parent |-> NoNode]},
              EmptyFn, EmptyFn, 1)

(***************************************************************************)
(* tsp/solve_tsp.py                                                        *)
(***************************************************************************)
RECURSIVE path_len(_, _)
path_len(G, path) ==
    IF Len(path) < 2 THEN 0
    ELSE G.wt[<<path[1], path[2]>>] + path_len(G, Tail(path))

add_reduced_edge(R, u, v, path, w) ==
    LET G == add_edge([nodes |-> R.nodes, adj |-> R.adj, wt |-> R.wt], u, v, w)
    IN  [R EXCEPT !.nodes = G.nodes, !.adj = G.adj, !.wt = G.wt,
                  !.edge_dict = Put(Put(@, <<u, v>>, path), <<v, u>>, Reverse(path))]

\* ReducedGraph.neighbors
neighbors(R, n) == Range(R.adj[n])

\* itertools.combinations(names, 2), in its order
Combinations2(names) ==
    LET n     == Len(names)
        pairs == {<<i, j>> \in (1..n) \X (1..n) : i < j}
        Before(p, q) == p[1] < q[1] \/ (p[1] = q[1] /\ p[2] < q[2])
    IN  [k \in 1..Cardinality(pairs) |->
            LET p == CHOOSE p \in pairs :
                        Cardinality({q \in pairs : Before(q, p)}) = k - 1
            IN  <<names[p[1]], names[p[2]]>>]

\* the loop of _reduce_graph from pair k on; ok = FALSE is NetworkXNoPath
RECURSIVE ReducePairs(_, _, _, _, _)
ReducePairs(G, nd, pairs, k, R) ==
    IF k > Len(pairs) THEN [ok |-> TRUE, reduced |-> R]
    ELSE LET source == nd[pairs[k][1]]
             target == nd[pairs[k][2]]
             path   == astar_path(G, source, target)
         IN  IF path = <<>> THEN [ok |-> FALSE, reduced |-> R]
             ELSE ReducePairs(G, nd, pairs, k + 1,
                      add_reduced_edge(R, source, target, path, path_len(G, path)))

reduce_graph(G, nd, names, s) ==
    ReducePairs(G, nd, Combinations2(names), 1,
                [NoReduced EXCEPT !.start = nd[s]])

\* itertools.permutations(s), in its order
RECURSIVE permutations(_)
RECURSIVE PermutationsFrom(_, _)
PermutationsFrom(s, i) ==
    IF i > Len(s) THEN <<>>
    ELSE LET others == SubSeq(s, 1, i - 1) \o SubSeq(s, i + 1, Len(s))
             tails  == permutations(others)
         IN  [k \in 1..Len(tails) |-> <<s[i]>> \o tails[k]]
             \o PermutationsFrom(s, i + 1)

permutations(s) == IF s = <<>> THEN << <<>> >> ELSE PermutationsFrom(s, 1)

\* whether _path_len can read graph[u][v] for every step of the path
PathReadable(R, path) ==
    \A i \in 1..(Len(path) - 1) : <<path[i], path[i + 1]>> \in DOMAIN R.wt

\* faulty variant: the comparison turned round, so that a longer path replaces the best
ShorterReversed(length, best) == ~best.found \/ length > best.length

\* the comparison of _brute_force: a strictly shorter path replaces the best
Shorter(length, best) == ~best.found \/ length < best.length

\* the loop of _brute_force over the permutations from the k-th on
RECURSIVE BruteLoop(_, _, _, _)
BruteLoop(R, perms, k, best) ==
    IF k > Len(perms) THEN best
    ELSE LET path   == <<R.start>> \o perms[k]
             length == path_len(R, path)
         IN  BruteLoop(R, perms, k + 1,
                 IF Shorter(length, best)
                 THEN [found |-> TRUE, path |-> path, length |-> length]
                 ELSE best)

\* the nodes _brute_force permutes: those that are not the start object
BruteNodes(R) == SelectSeq(R.nodes, LAMBDA n : n # R.start)

\* ok = FALSE is the KeyError of graph[u][v] for a start outside the graph
brute_force(R) ==
    LET perms == permutations(BruteNodes(R)) IN
    IF \E k \in 1..Len(perms) : ~PathReadable(R, <<R.start>> \o perms[k])
    THEN [ok |-> FALSE, path |-> <<>>, length |-> 0]
    ELSE LET best == BruteLoop(R, perms, 1,
                         [found |-> FALSE, path |-> <<>>, length |-> 0])
         IN  [ok |-> TRUE, path |-> best.path, length |-> best.length]

\* the key of min in _greedy
GreedyKey(R, cur, neighbor) == euclidean_dist_nodes(cur, neighbor)

\* faulty variant: min over all the neighbours, the visited ones included
NearestOfAll(R, cur, visited) ==
    LET all == Range(R.adj[cur])
    IN  {n \in all :
            \A m \in all :
                euclidean_dist_nodes(cur, n) <= euclidean_dist_nodes(cur, m)}

\* the values min can return: it keeps the first least key in the iteration
\* order of a set of nodes, an order that hashing decides
Nearest(R, cur, visited) ==
    LET unvisited == neighbors(R, cur) \ visited
    IN  {n \in unvisited :
            \A m \in unvisited : GreedyKey(R, cur, n) <= GreedyKey(R, cur, m)}

\* ReducedGraph.expand_path
RECURSIVE ExpandHead(_, _, _)
ExpandHead(R, reduced_path, i) ==
    IF i > Len(reduced_path) - 2 THEN <<>>
    ELSE LET seg == R.edge_dict[<<reduced_path[i], reduced_path[i + 1]>>]
         IN  SubSeq(seg, 1, Len(seg) - 1) \o ExpandHead(R, reduced_path, i + 1)

\* faulty variant: every segment kept whole, the shared node of a seam twice
RECURSIVE ExpandWhole(_, _, _)
ExpandWhole(R, reduced_path, i) ==
    IF i > Len(reduced_path) - 1 THEN <<>>
    ELSE R.edge_dict[<<reduced_path[i], reduced_path[i + 1]>>]
         \o ExpandWhole(R, reduced_path, i + 1)

expand_path_whole(R, reduced_path) == ExpandWhole(R, reduced_path, 1)

expand_path(R, reduced_path) ==
    ExpandHead(R, reduced_path, 1)
    \o R.edge_dict[<<reduced_path[Len(reduced_path) - 1],
                     reduced_path[Len(reduced_path)]>>]

(***************************************************************************)
(* tsp_solver: the reduction, then the solves and the expansion.           *)
(***************************************************************************)
Names(seq) == [i \in 1..Len(seq) |-> seq[i].name]

\* the call of _reduce_graph: the nodes to visit are the classrooms, as in
\* main; the start is one of them, as in main, or the hallway H1
ReduceGraph ==
    /\ pc = "connected"
    /\ \E s \in Range(Names(classrooms(graph))) \cup {"H1"} :
         LET names == Names(classrooms(graph))
             r     == reduce_graph(graph, node_dict, names, s)
         IN  /\ nodes' = names
             /\ start' = s
             /\ IF r.ok
                THEN /\ reduced' = r.reduced
                     /\ pc' = "reduced"
                     /\ err' = err
                ELSE /\ reduced' = reduced
                     /\ pc' = "failed"
                     /\ err' = "NetworkXNoPath"
    /\ UNCHANGED <<node_dict, graph, graph0, todo, ci, greedy, brute, expanded>>

\* _greedy is called twice on the reduced graph: the locals of each call
GreedyCall ==
    /\ pc = "reduced"
    /\ greedy' = [r \in 1..2 |->
                    [path |-> <<reduced.start>>, visited |-> {reduced.start},
                     cur |-> reduced.start, done |-> FALSE, length |-> 0]]
    /\ pc' = "greedy"
    /\ UNCHANGED <<node_dict, graph, graph0, todo, ci, nodes, start, reduced,
                   brute, expanded, err>>

\* one test of the while loop of call r, and its body or the return
GreedyStep(r) ==
    /\ pc = "greedy"
    /\ ~greedy[r].done
    /\ IF r = 1 THEN TRUE ELSE greedy[r - 1].done
    /\ LET g == greedy[r] IN
         IF g.cur \notin DOMAIN reduced.adj
         THEN /\ pc' = "failed"
              /\ err' = "KeyError"
              /\ greedy' = greedy
         ELSE IF neighbors(reduced, g.cur) \ g.visited = {}
         THEN /\ greedy' = [greedy EXCEPT ![r].done = TRUE,
                                          ![r].length = path_len(reduced, g.path)]
              /\ UNCHANGED <<pc, err>>
         ELSE /\ \E nearest \in Nearest(reduced, g.cur, g.visited) :
                    greedy' = [greedy EXCEPT ![r].path = Append(@, nearest),
                                             ![r].visited = @ \cup {nearest},
                                             ![r].cur = nearest]
              /\ UNCHANGED <<pc, err>>
    /\ UNCHANGED <<node_dict, graph, graph0, todo, ci, nodes, start, reduced,
                   brute, expanded>>

BruteForce ==
    /\ pc = "greedy"
    /\ \A r \in 1..2 : greedy[r].done
    /\ LET b == brute_force(reduced) IN
         IF b.ok
         THEN /\ brute' = [NoRun EXCEPT !.path = b.path, !.length = b.length,
                                        !.done = TRUE]
              /\ pc' = "solved"
              /\ err' = err
         ELSE /\ brute' = brute
              /\ pc' = "failed"
              /\ err' = "KeyError"
    /\ UNCHANGED <<node_dict, graph, graph0, todo, ci, nodes, start, reduced,
                   greedy, expanded>>

\* tsp_solver expands the route of the algorithm that was asked for
ExpandPath ==
    /\ pc = "solved"
    /\ \E route \in {brute.path, greedy[1].path, greedy[2].path} :
         expanded' = [route |-> route, full_path |-> expand_path(reduced, route)]
    /\ pc' = "done"
    /\ UNCHANGED <<node_dict, graph, graph0, todo, ci, nodes, start, reduced,
                   greedy, brute, err>>

Next ==
    \/ ConnectAllCall
    \/ ConnectAllStep
    \/ ConnectAllReturn
    \/ ReduceGraph
    \/ GreedyCall
    \/ \E r \in 1..2 : GreedyStep(r)
    \/ BruteForce
    \/ ExpandPath

Spec == Init /\ [][Next]_vars

(***************************************************************************)
(* Definitions the properties are stated with.                             *)
(***************************************************************************)
Min(S) == CHOOSE x \in S : \A y \in S : x <= y

NodeSet(G) == Range(G.nodes)

\* the nodes a path of edges leads to from the nodes of S
RECURSIVE Reach(_, _)
Reach(G, S) ==
    LET T == S \cup {n \in NodeSet(G) : \E m \in S : n \in Range(G.adj[m])}
    IN  IF T = S THEN S ELSE Reach(G, T)

\* least total weight of a walk from the source to every node it reaches,
\* by repeated relaxation of all edges (D maps the nodes reached so far)
RECURSIVE RelaxAll(_, _)
RelaxAll(G, D) ==
    LET dom == DOMAIN D \cup
                 {x \in NodeSet(G) : \E y \in DOMAIN D : x \in Range(G.adj[y])}
        E   == [x \in dom |->
                  Min((IF x \in DOMAIN D THEN {D[x]} ELSE {})
                      \cup {D[y] + G.wt[<<y, x>>] :
                              y \in DOMAIN D \cap Range(G.adj[x])})]
    IN  IF E = D THEN D ELSE RelaxAll(G, E)

ShortestDist(G, u, v) == RelaxAll(G, [x \in {u} |-> 0])[v]

\* the sum of the weights along a route, added from its last step back
RECURSIVE WeightSum(_, _)
WeightSum(G, route) ==
    IF Len(route) < 2 THEN 0
    ELSE WeightSum(G, SubSeq(route, 1, Len(route) - 1))
         + G.wt[<<route[Len(route) - 1], route[Len(route)]>>]

Complete(R) ==
    \A u, v \in NodeSet(R) : u # v => <<u, v>> \in DOMAIN R.wt

\* the orderings of the required nodes that begin with the start
Orderings(R) ==
    {o \in [1..Len(R.nodes) -> NodeSet(R)] :
        /\ o[1] = R.start
        /\ \A i, j \in 1..Len(R.nodes) : i # j => o[i] # o[j]}

SolvableReduced ==
    /\ reduced.start \in NodeSet(reduced)
    /\ Len(reduced.nodes) >= 2
    /\ Complete(reduced)

(***************************************************************************)
(* C1: on a complete reduced graph that contains the start node, the route *)
(* of each greedy solve and of the brute-force solve begins with the start *)
(* node and holds every other node of the reduced graph exactly once.      *)
(***************************************************************************)
IsOpenTour(R, route) ==
    /\ Len(route) = Len(R.nodes)
    /\ route[1] = R.start
    /\ Range(route) = NodeSet(R)
    /\ \A i, j \in 1..Len(route) : i # j => route[i] # route[j]

C1_RoutesVisitEveryNodeOnce ==
    SolvableReduced =>
        /\ err # "KeyError"
        /\ \A r \in 1..2 :
              LET path == greedy[r].path IN
              /\ \A i, j \in 1..Len(path) : i # j => path[i] # path[j]
              /\ greedy[r].done => IsOpenTour(reduced, path)
        /\ brute.done => IsOpenTour(reduced, brute.path)

C1_Witness ==
    /\ SolvableReduced
    /\ Len(reduced.nodes) = 3
    /\ greedy[2].done
    /\ brute.done

(***************************************************************************)
(* C2: the length the brute-force solve returns is the least sum of        *)
(* reduced-edge weights over all orderings of the required nodes that      *)
(* begin with the start, it is the length of the route returned, and it is *)
(* never greater than the length a greedy solve returns.                   *)
(***************************************************************************)
C2_BruteForceIsMinimum ==
    (SolvableReduced /\ brute.done) =>
        /\ brute.length = Min({WeightSum(reduced, o) : o \in Orderings(reduced)})
        /\ brute.length = WeightSum(reduced, brute.path)
        /\ \A r \in 1..2 : greedy[r].done => brute.length <= greedy[r].length

\* a case where the greedy route is strictly longer than the optimum
C2_Witness ==
    /\ SolvableReduced
    /\ brute.done
    /\ greedy[1].done
    /\ brute.length < greedy[1].length

(***************************************************************************)
(* C3: every node a greedy solve appends has the least reduced-edge weight *)
(* from the node before it among the nodes not yet visited.                *)
(***************************************************************************)
C3_GreedyPicksLeastWeight ==
    \A r \in 1..2 :
        \A i \in 2..Len(greedy[r].path) :
            LET path == greedy[r].path
                seen == {path[k] : k \in 1..(i - 1)}
            IN  \A m \in NodeSet(reduced) \ seen :
                    reduced.wt[<<path[i - 1], path[i]>>]
                        <= reduced.wt[<<path[i - 1], m>>]

(***************************************************************************)
(* C4: the reduced graph is complete over the start node and the targets:  *)
(* it holds each of them, and every two of them have a reduced edge with a *)
(* stored path in both directions, also when the start is not a target.    *)
(***************************************************************************)
Required == {node_dict[start]} \cup {node_dict[n] : n \in Range(nodes)}

C4_ReducedCompleteOverStartAndTargets ==
    pc = "reduced" =>
        /\ NodeSet(reduced) = Required
        /\ \A u, v \in Required :
              u # v => /\ <<u, v>> \in DOMAIN reduced.wt
                       /\ <<u, v>> \in DOMAIN reduced.edge_dict
                       /\ <<v, u>> \in DOMAIN reduced.edge_dict

(***************************************************************************)
(* C5: for every reduced edge the path stored for (u, v) is a walk of the  *)
(* base graph from u to v, the path stored for (v, u) is its reverse, and  *)
(* the edge's weight is the sum of the base weights along the path, which  *)
(* is the shortest-path length from u to v in the base graph; the base     *)
(* weights are the Euclidean distances between the endpoints.              *)
(***************************************************************************)
HasEdge(G, u, v) == <<u, v>> \in DOMAIN G.wt

IsWalk(G, path, u, v) ==
    /\ Len(path) >= 1
    /\ path[1] = u
    /\ path[Len(path)] = v
    /\ \A i \in 1..(Len(path) - 1) : HasEdge(G, path[i], path[i + 1])

EuclideanWeights(G) ==
    \A e \in DOMAIN G.wt : G.wt[e] = euclidean_dist_nodes(e[1], e[2])

C5_ReducedEdgesAreShortestPaths ==
    pc = "reduced" =>
        /\ EuclideanWeights(graph)
        /\ \A e \in DOMAIN reduced.wt :
              LET path == reduced.edge_dict[e] IN
              /\ IsWalk(graph, path, e[1], e[2])
              /\ reduced.edge_dict[<<e[2], e[1]>>]
                    = [i \in 1..Len(path) |-> path[Len(path) + 1 - i]]
              /\ reduced.wt[e] = WeightSum(graph, path)
              /\ reduced.wt[e] = ShortestDist(graph, e[1], e[2])

\* a reduced edge whose path runs over two junctions and a corridor
C5_Witness ==
    /\ pc = "reduced"
    /\ \E e \in DOMAIN reduced.wt :
          /\ Len(reduced.edge_dict[e]) >= 5
          /\ reduced.wt[e] > euclidean_dist_nodes(e[1], e[2])

(***************************************************************************)
(* C6: the expansion of a route r1..rk (k >= 2) is the stored path of      *)
(* (r1, r2) followed, for each later pair, by that pair's stored path      *)
(* without its first node; it starts at r1, ends at rk, does not repeat a  *)
(* shared node at a seam, and its length is the sum of the lengths of the  *)
(* stored paths minus (k - 2).                                             *)
(***************************************************************************)
\* the stored paths of the first k - 1 pairs of the route, joined that way
RECURSIVE Stitched(_, _, _)
Stitched(R, route, k) ==
    IF k = 2 THEN R.edge_dict[<<route[1], route[2]>>]
    ELSE Stitched(R, route, k - 1) \o Tail(R.edge_dict[<<route[k - 1], route[k]>>])

RECURSIVE SegmentLengths(_, _, _)
SegmentLengths(R, route, k) ==
    IF k < 2 THEN 0
    ELSE SegmentLengths(R, route, k - 1)
         + Len(R.edge_dict[<<route[k - 1], route[k]>>])

C6_ExpansionStitchesStoredPaths ==
    pc = "done" =>
        LET route == expanded.route
            full  == expanded.full_path
            k     == Len(route)
        IN  /\ k >= 2
            /\ full = Stitched(reduced, route, k)
            /\ full[1] = route[1]
            /\ full[Len(full)] = route[k]
            /\ Len(full) = SegmentLengths(reduced, route, k) - (k - 2)
            /\ \A i \in 1..(Len(full) - 1) : full[i] # full[i + 1]

\* a route of three nodes whose two stored paths both run over a junction
C6_Witness ==
    /\ pc = "done"
    /\ Len(expanded.route) = 3
    /\ Len(reduced.edge_dict[<<expanded.route[1], expanded.route[2]>>]) >= 3
    /\ Len(reduced.edge_dict[<<expanded.route[2], expanded.route[3]>>]) >= 3
    /\ Len(expanded.full_path) >= 5

(***************************************************************************)
(* C7: when connect_all has returned, every classroom is joined by a path  *)
(* to every other classroom, and the reduction that follows does not fail  *)
(* for want of a path.                                                     *)
(***************************************************************************)
TargetsConnected(G) ==
    \A c1, c2 \in Range(classrooms(G)) : c2 \in Reach(G, {c1})

C7_RepairConnectsAllTargets ==
    /\ pc = "connected" => TargetsConnected(graph)
    /\ err # "NetworkXNoPath"

(***************************************************************************)
(* C8: a classroom that has an edge to a hallway before connect_all gets   *)
(* no junction node and no new edge, and keeps the edges it had.           *)
(***************************************************************************)
AlreadyConnected(c) == \E h \in Range(graph0.adj[c]) : h.type = "Hallway"

C8_ConnectedTargetsUntouched ==
    \A c \in Range(classrooms(graph0)) :
        AlreadyConnected(c) =>
            /\ graph.adj[c] = graph0.adj[c]
            /\ \A n \in NodeSet(graph) : n.name # "T-" \o c.name

(***************************************************************************)
(* C9: two greedy solves of the same reduced graph from the same start     *)
(* return the same route and the same length, ties included.               *)
(***************************************************************************)
C9_GreedySolvesAgree ==
    (greedy[1].done /\ greedy[2].done) =>
        /\ greedy[1].path = greedy[2].path
        /\ greedy[1].length = greedy[2].length

(***************************************************************************)
(* C10: when connect_all fails for want of two candidate hallways, the     *)
(* graph has the nodes and edges it had before the call.                   *)
(***************************************************************************)
C10_FailedRepairLeavesGraphUnchanged ==
    err = "InsufficientNeighbors" => graph = graph0

(***************************************************************************)
(* C11: each classroom connect_all repairs gets one new hallway node, the  *)
(* junction, named "T-" and the classroom's name, on the classroom's       *)
(* floor, at the point of the segment between the two chosen hallways that *)
(* is closest to the classroom (an end of the segment when the foot of the *)
(* perpendicular lies outside it); the repair adds the three edges from    *)
(* the two hallways and from the classroom to the junction and no other,   *)
(* each weighted by the distance between its ends.  Hallways at (0,0) and  *)
(* (10,0) and a classroom at (5,5) give the junction (5,0), at distance 5  *)
(* from all three.                                                         *)
(***************************************************************************)
Dot(u, v) == u[1] * v[1] + u[2] * v[2]

Minus(u, v) == <<u[1] - v[1], u[2] - v[2]>>

\* P is the point of the segment from A to B closest to c
IsClampedProjection(P, A, B, c) ==
    LET ab == Minus(B, A) IN
    IF ab = <<0, 0>> THEN P = A
    ELSE /\ ab[1] * (P[2] - A[2]) = ab[2] * (P[1] - A[1])
         /\ Dot(Minus(P, A), ab) >= 0
         /\ Dot(Minus(P, A), ab) <= Dot(ab, ab)
         /\ \/ Dot(Minus(c, P), ab) = 0
            \/ P = A /\ Dot(Minus(c, A), ab) <= 0
            \/ P = B /\ Dot(Minus(c, B), ab) >= 0

SquaredDist(u, v) == Dot(Minus(u.coord, v.coord), Minus(u.coord, v.coord))

BothWays(pairs) == pairs \cup {<<e[2], e[1]>> : e \in pairs}

\* what one repair of classroom c changes from graph G to graph H
RepairAdds(G, H, c) ==
    LET added    == NodeSet(H) \ NodeSet(G)
        newEdges == DOMAIN H.wt \ DOMAIN G.wt
    IN  /\ Cardinality(added) = 1
        /\ \E J \in added : \E A, B \in Range(hallways(G)) :
              /\ A # B
              /\ A.floor = c.floor /\ B.floor = c.floor
              /\ J.type = "Hallway"
              /\ J.name = "T-" \o c.name
              /\ J.floor = c.floor
              /\ IsClampedProjection(J.coord, A.coord, B.coord, c.coord)
              /\ newEdges = BothWays({<<A, J>>, <<B, J>>, <<c, J>>})
              /\ \A e \in newEdges :
                    /\ H.wt[e] >= 0
                    /\ H.wt[e] * H.wt[e] = SquaredDist(e[1], e[2])
              /\ \A e \in DOMAIN G.wt : H.wt[e] = G.wt[e]
              /\ Range(H.adj[J]) = {A, B, c}
              /\ \A n \in NodeSet(G) :
                    Range(H.adj[n]) =
                        Range(G.adj[n]) \cup (IF n \in {A, B, c} THEN {J} ELSE {})

RepairExample ==
    LET H1 == EuclideanNode("Hallway", "H1", 1, <<0, 0>>)
        H2 == EuclideanNode("Hallway", "H2", 1, <<10, 0>>)
        C1 == EuclideanNode("Classroom", "C1", 1, <<5, 5>>)
        J  == project(H1, H2, C1)
    IN  /\ J = EuclideanNode("Hallway", "T-C1", 1, <<5, 0>>)
        /\ euclidean_dist_nodes(H1, J) = 5
        /\ euclidean_dist_nodes(H2, J) = 5
        /\ euclidean_dist_nodes(C1, J) = 5

C11_RepairAddsJunctionAndThreeEdges ==
    /\ RepairExample
    /\ [][(pc = "connecting" /\ ci' = ci + 1)
              => RepairAdds(graph, graph', todo[ci + 1])]_vars

\* two classrooms repaired: C1 with the foot of its perpendicular inside the
\* segment H1-H2, then C3 clamped to the end T-C1 of the segment T-C1 - H2
C11_Witness ==
    LET J1 == EuclideanNode("Hallway", "T-C1", 1, <<3, 0>>)
        J3 == EuclideanNode("Hallway", "T-C3", 1, <<3, 0>>)
    IN  /\ pc = "connecting"
        /\ ci = 2
        /\ todo[1].name = "C1" /\ todo[2].name = "C3"
        /\ {J1, J3} \subseteq NodeSet(graph)
        /\ Range(graph.adj[J1]) = {HallwayCatalogue[1], HallwayCatalogue[2],
                                   todo[1], J3}
        /\ Range(graph.adj[J3]) = {J1, HallwayCatalogue[2], todo[2]}
        /\ graph.wt[<<todo[1], J1>>] = 4
        /\ graph.wt[<<todo[2], J3>>] = 3

(***************************************************************************)
(* C12: connect_all repairs the classrooms one after another and searches  *)
(* the two nearest hallways of each among the hallways the graph holds at  *)
(* that moment, the junctions of the classrooms repaired before it         *)
(* included; a later classroom can so be joined to an earlier classroom's  *)
(* junction, and the graph obtained depends on the order of the            *)
(* classrooms.                                                             *)
(***************************************************************************)
JunctionsSoFar ==
    {n \in NodeSet(graph) : \E i \in 1..ci : n.name = "T-" \o todo[i].name}

\* the hallways of G that naive_knn may return for classroom c
Eligible(G, c) ==
    {h \in Range(hallways(G)) : h.floor = c.floor /\ SquaredDist(h, c) # 0}

NearestOfLiveView(G, H, c) ==
    LET J      == CHOOSE n \in NodeSet(H) \ NodeSet(G) : TRUE
        chosen == Range(H.adj[J]) \ {c}
    IN  /\ Cardinality(chosen) = 2
        /\ chosen \subseteq Eligible(G, c)
        /\ \A h \in Eligible(G, c) \ chosen :
              \A a \in chosen : SquaredDist(a, c) <= SquaredDist(h, c)

C12_LaterRepairsSeeEarlierJunctions ==
    [][(pc = "connecting" /\ ci' = ci + 1)
           => /\ Cardinality(JunctionsSoFar) = ci
              /\ JunctionsSoFar \subseteq Range(hallways(graph))
              /\ NearestOfLiveView(graph, graph', todo[ci + 1])]_vars

\* connect_all of graph G with the classrooms taken in the given order
RECURSIVE RepairInOrder(_, _, _)
RepairInOrder(G, order, i) ==
    IF i > Len(order) THEN [ok |-> TRUE, graph |-> G]
    ELSE LET r == ConnectOne(G, order[i]) IN
         IF r.ok THEN RepairInOrder(r.graph, order, i + 1) ELSE r

JunctionOf(c) == CHOOSE n \in NodeSet(graph) : n.name = "T-" \o c.name

\* a finished repair in which a later classroom's junction hangs on an
\* earlier classroom's junction, and whose graph has other edges than the
\* repair of the same file with the classrooms in another order
C12_Witness ==
    /\ pc = "connected"
    /\ RepairInOrder(graph0, todo, 1) = [ok |-> TRUE, graph |-> graph]
    /\ \E i, j \in 1..Len(todo) :
          /\ i < j
          /\ HasEdge(graph, JunctionOf(todo[j]), JunctionOf(todo[i]))
    /\ \E order \in [1..Len(todo) -> Range(todo)] :
          /\ Range(order) = Range(todo)
          /\ LET r == RepairInOrder(graph0, order, 1) IN
                r.ok /\ DOMAIN r.graph.wt # DOMAIN graph.wt

====
